---- MODULE Spec2Model ----
(***************************************************************************)
(* A model of python_sf.chess.preprocess_pgn_file: decompressing a zstd    *)
(* archive, splitting the PGN text into games, parsing each game into a    *)
(* record, inferring the Avro schema from the first record, writing one    *)
(* Avro file per record and the manifest file "games"; of                  *)
(* AvroUploader (create_stage, create_pipe, upload_files); and of the     *)
(* SnowflakeSession context manager.                                       *)
(*                                                                         *)
(* Text is a sequence of one-character strings.  A Python dict is a        *)
(* sequence of <<key, value>> pairs in insertion order with unique keys.   *)
(***************************************************************************)
EXTENDS Naturals, Sequences, FiniteSets, TLC

VARIABLES
    call,               \* the function the caller invoked, or "none"
    pc,                 \* position of the running call
    data,               \* the decompressed text read by preprocess_pgn
    games,              \* result of _split_pgn_games
    structured_games,   \* result of _convert_pgn_to_dict
    schema,             \* result of _get_avro_schema (its "fields" list)
    idx,                \* loop index of _write_avro_file
    files,              \* working directory: Avro file name -> content
    manifest,           \* working directory: the file "games"
    pgn_file,           \* working directory: the decompressed .pgn file
    in_file,            \* the file whose path preprocess_pgn was given
    uuid_count,         \* number of uuid4() calls made by the process
    runs,               \* number of calls started so far
    error,              \* the exception that ended the call, or "none"
    written,            \* Avro and manifest files the running call opened for writing
    issued,             \* game_id of every record the process has built
    queries,            \* the SQL texts given to the uploader's session, in order
    sfs,                \* the SnowflakeSession wrapper: config and _session
    sessions,           \* the sessions the builder has created, in order
    with_pc,            \* position of the with statement on sfs
    session,            \* the target of "with sfs as session"
    exc,                \* the exception raised in the block, or "none"
    raised              \* the exception the with statement let out, or "none"

vars == <<call, pc, data, games, structured_games, schema, idx, files,
          manifest, pgn_file, in_file, uuid_count, runs, error, written,
          issued, queries, sfs, sessions, with_pc, session, exc, raised>>

----------------------------------------------------------------------------
(* Bounds of the model.                                                    *)

MaxSplitPieces == 5      \* pieces of text in an input of the splitter
MaxParsePieces == 4      \* pieces of text inside a segment given to the parser
MaxRuns == 2             \* calls made by one process
MaxChunks == 2           \* chunks of the longest text given to the decompressor
MaxWiths == 2            \* with statements executed on one SnowflakeSession
MaxHeaderTags == 2       \* tags after the Event tag in a header block
MaxSessionQueries == 2   \* queries a session holds when an uploader method is called

----------------------------------------------------------------------------
(* Text helpers: Python str operations on sequences of characters.         *)

RECURSIVE Concat(_)
Concat(ss) == IF ss = <<>> THEN <<>> ELSE Head(ss) \o Concat(Tail(ss))

Slice(s, i, j) == IF i > j THEN <<>> ELSE SubSeq(s, i, j)

\* s[i:].startswith(tok), i 1-based
MatchAt(s, i, tok) ==
    /\ i >= 1
    /\ i + Len(tok) - 1 <= Len(s)
    /\ \A k \in 1..Len(tok) : s[i + k - 1] = tok[k]

startswith(s, tok) == MatchAt(s, 1, tok)

endswith(s, tok) == Len(s) >= Len(tok) /\ MatchAt(s, Len(s) - Len(tok) + 1, tok)

\* str.isspace for one character (the characters of the model's alphabet)
Whitespace == {" ", "\n", "\t"}

\* the regular expression class \w for one character: every character of
\* the model's alphabet is a letter, a digit or "_" unless listed here
NonWordChars == {"[", "]", "\"", " ", "\n", "\t", "-", "/", "{", "}", "."}

IsWordChar(c) == c \notin NonWordChars

RECURSIVE lstrip(_)
lstrip(s) == IF s # <<>> /\ Head(s) \in Whitespace THEN lstrip(Tail(s)) ELSE s

RECURSIVE rstrip(_)
rstrip(s) ==
    IF s # <<>> /\ s[Len(s)] \in Whitespace
    THEN rstrip(SubSeq(s, 1, Len(s) - 1))
    ELSE s

strip(s) == rstrip(lstrip(s))

\* least i >= from with MatchAt(s, i, tok), or 0 (str.find, 1-based)
RECURSIVE find(_, _, _)
find(s, tok, from) ==
    IF from + Len(tok) - 1 > Len(s) THEN 0
    ELSE IF MatchAt(s, from, tok) THEN from
    ELSE find(s, tok, from + 1)

----------------------------------------------------------------------------
(* _split_pgn_games: re.compile(r"(\[Event.*?(?:1-0|0-1|1/2-1/2))",         *)
(* re.DOTALL).findall(data)                                                *)

StartToken == <<"[", "E", "v", "e", "n", "t">>
WhiteWins == <<"1", "-", "0">>
BlackWins == <<"0", "-", "1">>
Draw == <<"1", "/", "2", "-", "1", "/", "2">>
\* the alternation (?:1-0|0-1|1/2-1/2), tried in this order
TerminalTokens == <<WhiteWins, BlackWins, Draw>>

\* length of the alternative that matches at position i, or 0
TerminalLenAt(s, i) ==
    IF MatchAt(s, i, TerminalTokens[1]) THEN Len(TerminalTokens[1])
    ELSE IF MatchAt(s, i, TerminalTokens[2]) THEN Len(TerminalTokens[2])
    ELSE IF MatchAt(s, i, TerminalTokens[3]) THEN Len(TerminalTokens[3])
    ELSE 0

\* a scan that passes over the terminal tokens between double quotes
RECURSIVE ScanOutsideQuotes(_, _, _)
ScanOutsideQuotes(s, from, quoted) ==
    IF from > Len(s) THEN 0
    ELSE IF s[from] = "\"" THEN ScanOutsideQuotes(s, from + 1, ~quoted)
    ELSE IF ~quoted /\ TerminalLenAt(s, from) > 0 THEN from
    ELSE ScanOutsideQuotes(s, from + 1, quoted)

LazyTerminalOutsideQuotes(s, from) == ScanOutsideQuotes(s, from, FALSE)

\* .*? without DOTALL: the scan ends at a line break
RECURSIVE LazyTerminalInLine(_, _)
LazyTerminalInLine(s, from) ==
    IF from > Len(s) THEN 0
    ELSE IF TerminalLenAt(s, from) > 0 THEN from
    ELSE IF s[from] = "\n" THEN 0
    ELSE LazyTerminalInLine(s, from + 1)

\* .*? with DOTALL: the least position i >= from where an alternative
\* matches, or 0 when none does before the end of the text
RECURSIVE LazyTerminal(_, _)
LazyTerminal(s, from) ==
    IF from > Len(s) THEN 0
    ELSE IF TerminalLenAt(s, from) > 0 THEN from
    ELSE LazyTerminal(s, from + 1)

\* the leftmost match of the pattern starting at or after from:
\* <<first, last>>, or <<0, 0>> when there is none
RECURSIVE SearchGame(_, _)
SearchGame(s, from) ==
    LET p == find(s, StartToken, from) IN
    IF p = 0 THEN <<0, 0>>
    ELSE LET q == LazyTerminal(s, p + Len(StartToken)) IN
         IF q = 0 THEN SearchGame(s, p + 1)
         ELSE <<p, q + TerminalLenAt(s, q) - 1>>

\* findall: the matches, each search resuming after the previous match;
\* the positions <<first, last>> of the matches
RECURSIVE FindAllGames(_, _)
FindAllGames(s, from) ==
    LET m == SearchGame(s, from) IN
    IF m[1] = 0 THEN <<>>
    ELSE <<m>> \o FindAllGames(s, m[2] + 1)

\* the splitter with a greedy .* : one match from the first start token to
\* the last terminal token
RECURSIVE LastTerminal(_, _)
LastTerminal(s, i) ==
    IF i < 1 THEN 0
    ELSE IF TerminalLenAt(s, i) > 0 THEN i
    ELSE LastTerminal(s, i - 1)

SplitGreedy(s) ==
    LET p == find(s, StartToken, 1)
        q == LastTerminal(s, Len(s))
    IN IF p = 0 \/ q < p + Len(StartToken) THEN <<>>
       ELSE <<SubSeq(s, p, q + TerminalLenAt(s, q) - 1)>>

\* the splitter with the end of the text accepted as a terminal: a game
\* cut off by the end of the input is emitted too
SplitWithPartial(s) ==
    LET ms == FindAllGames(s, 1)
        from == IF ms = <<>> THEN 1 ELSE ms[Len(ms)][2] + 1
        p == find(s, StartToken, from)
        whole == [k \in 1..Len(ms) |-> SubSeq(s, ms[k][1], ms[k][2])]
    IN IF p = 0 THEN whole ELSE Append(whole, SubSeq(s, p, Len(s)))

_split_pgn_games(s) ==
    LET ms == FindAllGames(s, 1) IN
    [k \in 1..Len(ms) |-> SubSeq(s, ms[k][1], ms[k][2])]

----------------------------------------------------------------------------
(* Python dict: insertion-ordered pairs <<key, value>> with unique keys.   *)

keys(d) == [k \in 1..Len(d) |-> d[k][1]]

HasKey(d, key) == \E k \in 1..Len(d) : d[k][1] = key

\* d[key] for a key that is present
Get(d, key) == d[CHOOSE k \in 1..Len(d) : d[k][1] = key][2]

\* d[key] = value: an existing key keeps its position, a new key is appended
DictSet(d, key, value) ==
    IF HasKey(d, key)
    THEN [k \in 1..Len(d) |-> IF d[k][1] = key THEN <<key, value>> ELSE d[k]]
    ELSE Append(d, <<key, value>>)

RECURSIVE DictUpdate(_, _)
DictUpdate(d, pairs) ==
    IF pairs = <<>> THEN d
    ELSE DictUpdate(DictSet(d, Head(pairs)[1], Head(pairs)[2]), Tail(pairs))

----------------------------------------------------------------------------
(* _convert_pgn_to_dict                                                    *)

\* end of the maximal run of characters satisfying the class from position
\* i on (i - 1 when the run is empty): greedy \w+ and \s+
RECURSIVE WordRunEnd(_, _)
WordRunEnd(s, i) ==
    IF i <= Len(s) /\ IsWordChar(s[i]) THEN WordRunEnd(s, i + 1) ELSE i - 1

RECURSIVE SpaceRunEnd(_, _)
SpaceRunEnd(s, i) ==
    IF i <= Len(s) /\ s[i] \in Whitespace THEN SpaceRunEnd(s, i + 1) ELSE i - 1

\* "(.*?)"\] without DOTALL, the value starting at i: the least position
\* v >= i of a quote followed by "]", no newline in between; 0 when none
RECURSIVE LazyValueEnd(_, _)
LazyValueEnd(s, v) ==
    IF v + 1 > Len(s) THEN 0
    ELSE IF s[v] = "\"" /\ s[v + 1] = "]" THEN v
    ELSE IF s[v] = "\n" THEN 0
    ELSE LazyValueEnd(s, v + 1)

\* header_pattern = \[(\w+)\s+"(.*?)"\] matched at position p:
\* <<tag, value, last position of the match>>, or <<>> when it fails
HeaderMatchAt(s, p) ==
    IF ~(p <= Len(s) /\ s[p] = "[") THEN <<>>
    ELSE LET n == WordRunEnd(s, p + 1) IN
         IF n < p + 1 THEN <<>>
         ELSE LET w == SpaceRunEnd(s, n + 1) IN
              IF w < n + 1 \/ w + 1 > Len(s) \/ s[w + 1] # "\"" THEN <<>>
              ELSE LET v == LazyValueEnd(s, w + 2) IN
                   IF v = 0 THEN <<>>
                   ELSE <<Slice(s, p + 1, n), Slice(s, w + 2, v - 1), v + 1>>

\* header_pattern.findall(game): the (tag, value) pairs of the leftmost
\* non-overlapping matches, in order
RECURSIVE FindAllHeaders(_, _)
FindAllHeaders(s, from) ==
    IF from > Len(s) THEN <<>>
    ELSE LET m == HeaderMatchAt(s, from) IN
         IF m = <<>> THEN FindAllHeaders(s, from + 1)
         ELSE <<<<m[1], m[2]>>>> \o FindAllHeaders(s, m[3] + 1)

\* str.splitlines() for text whose only line boundary is "\n"
RECURSIVE splitlines(_)
splitlines(s) ==
    IF s = <<>> THEN <<>>
    ELSE LET p == find(s, <<"\n">>, 1) IN
         IF p = 0 THEN <<s>>
         ELSE <<Slice(s, 1, p - 1)>> \o splitlines(Slice(s, p + 1, Len(s)))

\* sep.join(parts)
RECURSIVE join(_, _)
join(sep, parts) ==
    IF parts = <<>> THEN <<>>
    ELSE IF Len(parts) = 1 THEN parts[1]
    ELSE parts[1] \o sep \o join(sep, Tail(parts))

BlankLine == <<"\n", "\n">>
HeaderMarker == <<"[">>
MovesKey == <<"m", "o", "v", "e", "s">>
GameIdKey == <<"g", "a", "m", "e", "_", "i", "d">>

\* the move text with the fallback keeping every line, header lines too
MovesOfKeepingHeaders(game) ==
    LET p == find(game, BlankLine, 1) IN
    IF p # 0
    THEN strip(Slice(game, p + Len(BlankLine), Len(game)))
    ELSE strip(join(<<"\n">>, splitlines(game)))

\* the move text of one game (lines 152-158)
MovesOf(game) ==
    LET p == find(game, BlankLine, 1) IN
    IF p # 0
    THEN strip(Slice(game, p + Len(BlankLine), Len(game)))
    ELSE strip(join(<<"\n">>,
                    SelectSeq(splitlines(game),
                              LAMBDA line : ~startswith(line, HeaderMarker))))

\* decimal digits of a positive number
Digits == <<"0", "1", "2", "3", "4", "5", "6", "7", "8", "9">>

RECURSIVE str(_)
str(n) == IF n < 10 THEN <<Digits[n + 1]>> ELSE str(n \div 10) \o <<Digits[(n % 10) + 1]>>

\* str(uuid4()) of the n-th call of the process: uuid4 is taken to be
\* collision-free, so the n-th call returns a value no other call returns
uuid4(n) == <<"u", "u", "i", "d", "-">> \o str(n)

\* the dict of one game with a game_id tag of the header kept
\* (setdefault instead of an assignment)
GameDictKeepingTagId(game, n) ==
    LET tagged == DictUpdate(<<>>, FindAllHeaders(game, 1))
        moved == DictSet(tagged, MovesKey, MovesOf(game))
    IN IF HasKey(moved, GameIdKey) THEN moved
       ELSE DictSet(moved, GameIdKey, uuid4(n + 1))

\* the dict built for one game by one pass of the loop (lines 148-160);
\* n is the number of uuid4() calls made before this one
GameDict(game, n) ==
    LET tagged == DictUpdate(<<>>, FindAllHeaders(game, 1))
        moved == DictSet(tagged, MovesKey, MovesOf(game))
    IN DictSet(moved, GameIdKey, uuid4(n + 1))

\* the list of dicts for a list of games; n is the number of uuid4() calls
\* the process made before the call
_convert_pgn_to_dict(gs, n) == [k \in 1..Len(gs) |-> GameDict(gs[k], n + k - 1)]

----------------------------------------------------------------------------
(* _get_avro_schema: raised is the exception of line 187 or "none";       *)
(* fields is the list of the names of schema["fields"], every field of     *)
(* type "string".                                                          *)

\* the schema inference with an empty list answered by an empty schema
EmptySchemaForNoGames(sg) ==
    [raised |-> "none", fields |-> IF sg = <<>> THEN <<>> ELSE keys(sg[1])]

_get_avro_schema(sg) ==
    IF sg = <<>>
    THEN [raised |-> "ValueError", fields |-> <<>>]
    ELSE [raised |-> "none", fields |-> keys(sg[1])]

----------------------------------------------------------------------------
(* _write_avro_file and _add_game_id_to_list_of_files                      *)

Unknown == <<"u", "n", "k", "n", "o", "w", "n">>
AvroSuffix == <<".", "a", "v", "r", "o">>

\* game.get("game_id", "unknown")
GameIdOf(game) == IF HasKey(game, GameIdKey) THEN Get(game, GameIdKey) ELSE Unknown

\* f"{game_id}.avro"
OutputFile(game) == GameIdOf(game) \o AvroSuffix

\* fastavro's record writer raises when a field of the schema, which has no
\* default, is missing from the record
WriterRaises(sch, game) == \E k \in 1..Len(sch) : ~HasKey(game, sch[k])

\* the file with the record's values written in the record's own order
AvroFileInRecordOrder(sch, game) ==
    [fields |-> sch,
     rows |-> IF WriterRaises(sch, game) THEN <<>>
              ELSE <<[k \in 1..Len(sch) |-> game[k][2]]>>]

\* the file left by open(output_file, "wb") and fastavro.writer(out, schema,
\* [game]): the header carries the schema; the record is encoded as the
\* values of the schema's fields, in the schema's order, and nothing else;
\* when the writer raises, the file holds the header and no record
AvroFile(sch, game) ==
    [fields |-> sch,
     rows |-> IF WriterRaises(sch, game) THEN <<>>
              ELSE <<[k \in 1..Len(sch) |-> Get(game, sch[k])]>>]

\* list(fastavro.reader(fo)): the records of a file as dicts
AvroRead(file) ==
    [r \in 1..Len(file.rows) |->
        [k \in 1..Len(file.fields) |-> <<file.fields[k], file.rows[r][k]>>]]

\* the manifest with the last game first
RECURSIVE ManifestTextReversed(_)
ManifestTextReversed(sg) ==
    IF sg = <<>> THEN <<>>
    ELSE ManifestTextReversed(Tail(sg)) \o GameIdOf(Head(sg)) \o <<"\n">>

\* the game_ids written without line ends
ManifestTextUnbroken(sg) == Concat([k \in 1..Len(sg) |-> GameIdOf(sg[k])])

\* the text written to "games": f"{game_id}\n" for every game, in order
ManifestText(sg) ==
    Concat([k \in 1..Len(sg) |-> GameIdOf(sg[k]) \o <<"\n">>])

\* the name of the manifest file
ManifestName == <<"g", "a", "m", "e", "s">>

NoFile == [exists |-> FALSE, text |-> <<>>]
TextFile(t) == [exists |-> TRUE, text |-> t]
EmptyDir == [name \in {} |-> 0]

\* dir with file name created or truncated and set to content
WriteFile(dir, name, content) ==
    [n \in (DOMAIN dir) \cup {name} |-> IF n = name THEN content ELSE dir[n]]

----------------------------------------------------------------------------
(* Inputs.                                                                 *)

SeqsUpTo(S, n) == UNION {[1..k -> S] : k \in 0..n}

Chars_e4 == <<"e", "4">>
Newline == <<"\n">>
Space == <<" ">>
EventKey == <<"E", "v", "e", "n", "t">>
SiteKey == <<"S", "i", "t", "e">>
DateKey == <<"D", "a", "t", "e">>

\* the header line [name "value"]
Tag(name, value) == <<"[">> \o name \o <<" ", "\"">> \o value \o <<"\"", "]">>

\* texts given to the splitter: up to MaxSplitPieces pieces
SplitPieces == {StartToken, WhiteWins, BlackWins, Draw, Newline, Chars_e4}
SplitInputs == {Concat(ps) : ps \in SeqsUpTo(SplitPieces, MaxSplitPieces)}

\* segments given to the parser: the start token, up to MaxParsePieces
\* pieces without a terminal token, and a terminal token
ParsePieces == {<<" ", "\"", "a", "\"", "]">>, Newline, Space, Chars_e4,
                Tag(SiteKey, <<"b">>), Tag(SiteKey, <<"c">>),
                Tag(MovesKey, <<"m">>), Tag(GameIdKey, <<"g">>)}
ParseInputs == {StartToken \o Concat(ps) \o t :
                    ps \in SeqsUpTo(ParsePieces, MaxParsePieces),
                    t \in {WhiteWins, Draw}}

\* decompressed archives given to preprocess_pgn
GameText(tags, moves, result) ==
    join(Newline, tags) \o BlankLine \o moves \o Space \o result

Archives ==
    LET ea == Tag(EventKey, <<"a">>)
        eb == Tag(EventKey, <<"b">>)
        sb == Tag(SiteKey, <<"b">>)
        dc == Tag(DateKey, <<"c">>)
        gg == Tag(GameIdKey, <<"g">>)
    IN {<<>>,
        Chars_e4 \o Newline,
        StartToken \o BlankLine \o Chars_e4 \o Space \o WhiteWins,
        GameText(<<ea>>, Chars_e4, WhiteWins),
        GameText(<<ea, gg>>, Chars_e4, WhiteWins),
        GameText(<<ea>>, Chars_e4, WhiteWins) \o BlankLine
            \o GameText(<<eb>>, Chars_e4, BlackWins),
        GameText(<<ea>>, Chars_e4, WhiteWins) \o BlankLine
            \o GameText(<<eb, sb>>, Chars_e4, Draw),
        GameText(<<ea, sb>>, Chars_e4, WhiteWins) \o BlankLine
            \o GameText(<<eb>>, Chars_e4, BlackWins),
        GameText(<<ea, sb, dc>>, Chars_e4, WhiteWins) \o BlankLine
            \o GameText(<<eb, dc, sb>>, Chars_e4, BlackWins)}

\* lists of dicts given to _write_avro_file by a direct caller
Id1 == <<"i", "d", "1">>
Id2 == <<"i", "d", "2">>
RecordLists ==
    LET r(ev, mv, id) == <<<<EventKey, ev>>, <<MovesKey, mv>>, <<GameIdKey, id>>>>
        n(ev, mv) == <<<<EventKey, ev>>, <<MovesKey, mv>>>>
    IN {<<r(<<"a">>, WhiteWins, Id1), r(<<"a">>, BlackWins, Id2)>>,
        <<r(<<"a">>, WhiteWins, Id1), r(<<"b">>, BlackWins, Id1)>>,
        <<r(<<"b">>, Draw, Id2)>>,
        <<n(<<"a">>, WhiteWins), n(<<"b">>, BlackWins)>>}

----------------------------------------------------------------------------
(* _decompress_pgn_file.  A compressed file is a sequence of complete zstd *)
(* frames, each the compression of a text, and a tail, the bytes after the *)
(* last complete frame: none; junk, bytes that cannot begin a frame; or a  *)
(* frame that the end of the file cuts short (down to a part of its magic  *)
(* number), text being what the reader decodes of it.                      *)

ZstSuffix == <<".", "z", "s", "t">>
PgnSuffix == <<".", "p", "g", "n">>

NoTail == [kind |-> "none", text |-> <<>>]
Junk == [kind |-> "junk", text |-> <<>>]
CutFrame(text) == [kind |-> "cut", text |-> text]

NoInput == [suffix |-> <<>>, frames |-> <<>>, tail |-> NoTail]

\* ZstdCompressor().compress(text) written to a file *.zst: one frame
Compressed(text) == [suffix |-> ZstSuffix, frames |-> <<text>>, tail |-> NoTail]

\* in_file.suffix == ".zst"
SuffixAccepted(f) == f.suffix = ZstSuffix

chunk_size == 16384

Min(a, b) == IF a <= b THEN a ELSE b

\* a reader that yields nothing more once the first frame has ended
ReaderOfFirstFrame(f) == IF f.frames = <<>> THEN <<>> ELSE <<f.frames[1]>>

\* dctx.stream_reader(compressed): the texts the reader decodes, one after
\* the other (read_across_frames=False: no read returns bytes of two
\* frames, and the read after the end of a frame goes on with the next);
\* of a frame cut short by the end of the file the reader yields what it
\* can decode, and then b"" without an error
stream_reader(f) ==
    f.frames \o (IF f.tail.kind = "cut" THEN <<f.tail.text>> ELSE <<>>)

\* reader.read(n) inside a frame of which pos bytes have been read
ReaderRead(frame, pos, n) == Slice(frame, pos + 1, Min(pos + n, Len(frame)))

\* the loop of lines 71-75 from byte pos of frame k on: what is written to
\* the output file until a read returns b"" or raises
RECURSIVE CopyChunks(_, _, _)
CopyChunks(frames, k, pos) ==
    IF k > Len(frames) THEN <<>>
    ELSE IF pos = Len(frames[k]) THEN CopyChunks(frames, k + 1, 0)
    ELSE LET chunk == ReaderRead(frames[k], pos, chunk_size) IN
         chunk \o CopyChunks(frames, k, pos + Len(chunk))

\* the read that reaches bytes which cannot begin a zstd frame raises
\* ZstdError; the end of the file inside a frame raises nothing
ReaderRaises(f) == f.tail.kind = "junk"

\* the content of the output file, which open(output_file, "wb") creates
\* or truncates before the first read
_decompress_pgn_file(f) == CopyChunks(stream_reader(f), 1, 0)

\* files given to preprocess_pgn: every archive compressed as one frame,
\* archives compressed as two frames, files that are no zstd container
\* (from the first byte, or after the first frame), files that end inside
\* a frame (in its data, or in its magic number), and files whose name
\* does not end in .zst
MultiFrame ==
    LET g1 == GameText(<<Tag(EventKey, <<"a">>)>>, Chars_e4, WhiteWins)
        g2 == GameText(<<Tag(EventKey, <<"b">>)>>, Chars_e4, BlackWins)
    IN {<<g1 \o BlankLine, g2>>, <<<<>>, g1>>, <<g1, <<>>>>}
Corrupt ==
    LET g1 == GameText(<<Tag(EventKey, <<"a">>)>>, Chars_e4, WhiteWins)
    IN {<<>>, <<g1>>}
Truncated ==
    LET g1 == GameText(<<Tag(EventKey, <<"a">>)>>, Chars_e4, WhiteWins)
        g2 == GameText(<<Tag(EventKey, <<"b">>)>>, Chars_e4, BlackWins)
        part == Slice(g2, 1, Len(g2) - Len(BlackWins))
    IN {[suffix |-> ZstSuffix, frames |-> <<g1>>, tail |-> CutFrame(part)],
        [suffix |-> ZstSuffix, frames |-> <<g1>>, tail |-> CutFrame(<<>>)],
        [suffix |-> ZstSuffix, frames |-> <<>>, tail |-> CutFrame(<<>>)]}
InputFiles ==
    {Compressed(text) : text \in Archives}
    \cup {[suffix |-> ZstSuffix, frames |-> fs, tail |-> NoTail] : fs \in MultiFrame}
    \cup {[suffix |-> ZstSuffix, frames |-> fs, tail |-> Junk] : fs \in Corrupt}
    \cup Truncated
    \cup {[suffix |-> PgnSuffix, frames |-> fs,
           tail |-> IF fs = <<>> THEN Junk ELSE NoTail] :
              fs \in {<<>>, <<Chars_e4>>}}

----------------------------------------------------------------------------
(* AvroUploader: create_stage, create_pipe and upload_files give SQL text  *)
(* to the session, which keeps it in the list queries.                     *)

stage_name ==
    <<"R", "A", "W", "_", "A", "V", "R", "O", "_", "S", "T", "A", "G", "E">>
pipe_name ==
    <<"A", "V", "R", "O", "_", "P", "I", "P", "E">>

\* DummySnowflakeSession(): self.queries = []
NoQueries == <<>>

TargetTables == {
    <<"C", "H", "E", "S", "S", "_", "G", "A", "M", "E", "S">>,
    <<"A", "N", "O", "T", "H", "E", "R", "_", "T", "A", "B", "L", "E">>}

AvroFormat ==
    <<"F", "I", "L", "E", "_", "F", "O", "R", "M", "A", "T", " ", "=", " ",
      "(", "T", "Y", "P", "E", " ", "=", " ", "'", "A", "V", "R", "O", "'",
      ")">>

\* the SQL of create_stage, lines 48-50
StageCommand(auto_ingest) ==
    <<"C", "R", "E", "A", "T", "E", " ", "O", "R", " ", "R", "E", "P", "L",
      "A", "C", "E", " ", "S", "T", "A", "G", "E", " ">> \o stage_name
        \o <<" ">> \o AvroFormat
        \o (IF auto_ingest
            THEN
                <<" ", "A", "U", "T", "O", "_", "I", "N", "G", "E", "S",
                  "T", " ", "=", " ", "T", "R", "U", "E">>
            ELSE <<>>)

\* the SQL of create_pipe, lines 62-67
PipeCommand(target_table) ==
    <<"C", "R", "E", "A", "T", "E", " ", "O", "R", " ", "R", "E", "P", "L",
      "A", "C", "E", " ", "P", "I", "P", "E", " ">> \o pipe_name
        \o
        <<" ", "A", "S", " ", "C", "O", "P", "Y", " ", "I", "N", "T", "O",
          " ">> \o target_table
        \o
        <<" ", "F", "R", "O", "M", " ", "@">> \o stage_name
        \o <<" ">> \o AvroFormat

\* directory.glob("*.avro")
glob(names) == {n \in names : endswith(n, AvroSuffix)}

\* f"PUT file://{abs_path} @{self.stage_name}", the directory being /
PutCommand(name) ==
    <<"P", "U", "T", " ", "f", "i", "l", "e", ":", "/", "/", "/">> \o name
        \o <<" ", "@">> \o stage_name

\* the orders in which the glob may yield the files
Orders(S) ==
    {o \in [1..Cardinality(S) -> S] :
        \A i, j \in 1..Cardinality(S) : i # j => o[i] # o[j]}

\* the queries upload_files gives to the session for the files in the
\* order paths: one PUT for every file
upload_files(paths) == [k \in 1..Len(paths) |-> PutCommand(paths[k])]

----------------------------------------------------------------------------
(* SnowflakeConnectionConfig and SnowflakeSession.                         *)

None == "None"
NoSession == 0

ConfigKeys == {"account", "user", "role", "warehouse", "database", "schema",
               "password"}

\* value or ""
OrEmpty(value) == IF value = None \/ value = "" THEN "" ELSE value

\* SnowflakeConnectionConfig.to_dict
to_dict(config) == [k \in ConfigKeys |-> OrEmpty(config[k])]

\* a session as the builder returns it: open, no query given
NewSession(connection_params) ==
    [configs |-> connection_params, closed |-> 0]

\* bool() of what __exit__ returns: it returns None
SuppressingExit == TRUE
ExitResult == FALSE

\* configurations: what load() finds in the environment
Configs ==
    {[k \in ConfigKeys |->
        IF k = "account" THEN a ELSE IF k = "user" THEN u ELSE None] :
            a \in {None, "", "acct"}, u \in {None, "me"}}

Exceptions == {"RuntimeError", "KeyError", "AttributeError"}

----------------------------------------------------------------------------
(* The process: calls of preprocess_pgn and of _write_avro_file, one after *)
(* the other, in one working directory.                                    *)

Locals == <<data, games, structured_games, schema, idx>>
Directory == <<files, manifest, pgn_file>>

Snowflake == <<sfs, sessions, with_pc, session, exc, raised>>

Process == <<call, pc, Locals, Directory, in_file, uuid_count, runs, error,
             written, issued, queries>>

\* no SnowflakeSession is in use
NoWith ==
    /\ sfs = [config |-> [k \in ConfigKeys |-> None], _session |-> NoSession]
    /\ sessions = <<>>
    /\ with_pc = "outside"
    /\ session = NoSession
    /\ exc = "none"
    /\ raised = "none"

\* the names of the working directory's Avro files and manifest
DirectoryNames ==
    DOMAIN files \cup (IF manifest.exists THEN {ManifestName} ELSE {})

Init ==
    /\ call = "none"
    /\ pc = "idle"
    /\ data = <<>>
    /\ games = <<>>
    /\ structured_games = <<>>
    /\ schema = <<>>
    /\ idx = 0
    /\ files = EmptyDir
    /\ manifest = NoFile
    /\ pgn_file = NoFile
    /\ in_file = NoInput
    /\ uuid_count = 0
    /\ runs = 0
    /\ error = "none"
    /\ written = {}
    /\ issued = <<>>
    /\ queries = NoQueries
    /\ NoWith

\* preprocess_pgn is called with the path of in_file
Call ==
    /\ pc = "idle"
    /\ runs < MaxRuns
    /\ in_file' \in InputFiles
    /\ call' = "preprocess_pgn"
    /\ pc' = "called"
    /\ runs' = runs + 1
    /\ error' = "none"
    /\ written' = {}
    /\ data' = <<>>
    /\ games' = <<>>
    /\ structured_games' = <<>>
    /\ schema' = <<>>
    /\ idx' = 0
    /\ UNCHANGED <<Directory, uuid_count, issued, queries, Snowflake>>

\* lines 28-32
CheckSuffix ==
    /\ pc = "called"
    /\ IF SuffixAccepted(in_file)
       THEN /\ pc' = "decompress"
            /\ UNCHANGED error
       ELSE /\ pc' = "failed"
            /\ error' = "ValueError"
    /\ UNCHANGED <<call, Locals, Directory, in_file, uuid_count, runs,
                   written, issued, queries, Snowflake>>

\* line 37: _decompress_pgn_file(in_file, curr_dir / out_file), lines 67-75
Decompress ==
    /\ pc = "decompress"
    /\ pgn_file' = TextFile(_decompress_pgn_file(in_file))
    /\ IF ReaderRaises(in_file)
       THEN /\ pc' = "failed"
            /\ error' = "ZstdError"
       ELSE /\ pc' = "decompressed"
            /\ UNCHANGED error
    /\ UNCHANGED <<call, Locals, files, manifest, in_file, uuid_count, runs,
                   written, issued, queries, Snowflake>>

\* lines 38-40: the decompressed file is read back
Read ==
    /\ pc = "decompressed"
    /\ data' = pgn_file.text
    /\ pc' = "read"
    /\ UNCHANGED <<call, games, structured_games, schema, idx, Directory,
                   in_file, uuid_count, runs, error, written, issued,
                   queries, Snowflake>>

\* line 42
Split ==
    /\ pc = "read"
    /\ games' = _split_pgn_games(data)
    /\ pc' = "split"
    /\ UNCHANGED <<call, data, structured_games, schema, idx, Directory,
                   in_file, uuid_count, runs, error, written, issued,
                   queries, Snowflake>>

\* line 43
Convert ==
    /\ pc = "split"
    /\ structured_games' = _convert_pgn_to_dict(games, uuid_count)
    /\ uuid_count' = uuid_count + Len(games)
    /\ issued' = issued \o [k \in 1..Len(games) |->
                                Get(structured_games'[k], GameIdKey)]
    /\ pc' = "converted"
    /\ UNCHANGED <<call, data, games, schema, idx, Directory, in_file, runs,
                   error, written, queries, Snowflake>>

\* line 44
GetSchema ==
    /\ pc = "converted"
    /\ IF _get_avro_schema(structured_games).raised # "none"
       THEN /\ error' = _get_avro_schema(structured_games).raised
            /\ pc' = "failed"
            /\ UNCHANGED <<schema, idx, queries, Snowflake>>
       ELSE /\ schema' = _get_avro_schema(structured_games).fields
            /\ idx' = 1
            /\ pc' = "writing"
            /\ UNCHANGED error
    /\ UNCHANGED <<call, data, games, structured_games, Directory, in_file,
                   uuid_count, runs, written, issued, queries, Snowflake>>

\* a direct call _write_avro_file(records, _get_avro_schema(records))
CallWrite ==
    /\ pc = "idle"
    /\ runs < MaxRuns
    /\ \E records \in RecordLists :
        /\ structured_games' = records
        /\ schema' = _get_avro_schema(records).fields
    /\ call' = "_write_avro_file"
    /\ pc' = "writing"
    /\ idx' = 1
    /\ runs' = runs + 1
    /\ error' = "none"
    /\ written' = {}
    /\ data' = <<>>
    /\ games' = <<>>
    /\ UNCHANGED <<Directory, in_file, uuid_count, issued, queries, Snowflake>>

\* one pass of the loop of _write_avro_file, lines 235-239
WriteRecord ==
    /\ pc = "writing"
    /\ idx <= Len(structured_games)
    /\ LET game == structured_games[idx] IN
        /\ files' = WriteFile(files, OutputFile(game), AvroFile(schema, game))
        /\ written' = written \cup {OutputFile(game)}
        /\ IF WriterRaises(schema, game)
           THEN /\ error' = "ValueError"
                /\ pc' = "failed"
                /\ UNCHANGED idx
           ELSE /\ idx' = idx + 1
                /\ UNCHANGED <<pc, error, queries, Snowflake>>
    /\ UNCHANGED <<call, data, games, structured_games, schema, manifest,
                   pgn_file, in_file, uuid_count, runs, issued, queries,
                   Snowflake>>

\* line 240: _add_game_id_to_list_of_files, lines 211-214
WriteManifest ==
    /\ pc = "writing"
    /\ idx > Len(structured_games)
    /\ manifest' = TextFile(ManifestText(structured_games))
    /\ written' = written \cup {ManifestName}
    /\ pc' = "done"
    /\ UNCHANGED <<call, Locals, files, pgn_file, in_file, uuid_count, runs,
                   error, issued, queries, Snowflake>>

\* the call returns or its exception reaches the caller
Return ==
    /\ pc \in {"done", "failed"}
    /\ pc' = "idle"
    /\ call' = "none"
    /\ UNCHANGED <<Locals, Directory, in_file, uuid_count, runs, error,
                   written, issued, queries, Snowflake>>

\* AvroUploader(session, auto_ingest=...).create_stage(), lines 48-51
CreateStage ==
    /\ pc = "idle"
    /\ Len(queries) < MaxSessionQueries
    /\ \E auto_ingest \in BOOLEAN :
        queries' = Append(queries, StageCommand(auto_ingest))
    /\ call' = "create_stage"
    /\ pc' = "done"
    /\ error' = "none"
    /\ written' = {}
    /\ UNCHANGED <<Locals, Directory, in_file, uuid_count, runs, issued,
                   Snowflake>>

\* AvroUploader(session).create_pipe(target_table), lines 62-68
CreatePipe ==
    /\ pc = "idle"
    /\ Len(queries) < MaxSessionQueries
    /\ \E target_table \in TargetTables :
        queries' = Append(queries, PipeCommand(target_table))
    /\ call' = "create_pipe"
    /\ pc' = "done"
    /\ error' = "none"
    /\ written' = {}
    /\ UNCHANGED <<Locals, Directory, in_file, uuid_count, runs, issued,
                   Snowflake>>

\* AvroUploader(session).upload_files(directory) on the working
\* directory, lines 83-92
Upload ==
    /\ pc = "idle"
    /\ Len(queries) < MaxSessionQueries
    /\ \E paths \in Orders(glob(DirectoryNames)) :
        queries' = queries \o upload_files(paths)
    /\ call' = "upload_files"
    /\ pc' = "done"
    /\ error' = "none"
    /\ written' = {}
    /\ UNCHANGED <<Locals, Directory, in_file, uuid_count, runs, issued,
                   Snowflake>>

Next ==
    \/ Call
    \/ CheckSuffix
    \/ Decompress
    \/ Read
    \/ Split
    \/ Convert
    \/ GetSchema
    \/ CallWrite
    \/ WriteRecord
    \/ WriteManifest
    \/ Return

Spec == Init /\ [][Next]_vars

----------------------------------------------------------------------------
(* Calls of _write_avro_file and of the methods of AvroUploader, one after *)
(* the other, in one working directory and with one session.               *)

NextUpload ==
    \/ CallWrite
    \/ WriteRecord
    \/ WriteManifest
    \/ Return
    \/ CreateStage
    \/ CreatePipe
    \/ Upload

SpecUpload == Init /\ [][NextUpload]_vars

----------------------------------------------------------------------------
(* _split_pgn_games applied to every text of SplitInputs, and the parser   *)
(* applied to what it returns.                                             *)

InitSplit ==
    /\ call = "preprocess_pgn"
    /\ pc = "read"
    /\ data \in SplitInputs
    /\ games = <<>>
    /\ structured_games = <<>>
    /\ schema = <<>>
    /\ idx = 0
    /\ files = EmptyDir
    /\ manifest = NoFile
    /\ pgn_file = TextFile(data)
    /\ in_file = Compressed(data)
    /\ uuid_count = 0
    /\ runs = 1
    /\ error = "none"
    /\ written = {}
    /\ issued = <<>>
    /\ queries = NoQueries
    /\ NoWith

NextSplit == Split \/ Convert

SpecSplit == InitSplit /\ [][NextSplit]_vars

----------------------------------------------------------------------------
(* _convert_pgn_to_dict applied to every segment of ParseInputs, and       *)
(* _get_avro_schema applied to what it returns.                            *)

InitParse ==
    /\ call = "_convert_pgn_to_dict"
    /\ pc = "split"
    /\ data = <<>>
    /\ \E game \in ParseInputs : games = <<game>>
    /\ structured_games = <<>>
    /\ schema = <<>>
    /\ idx = 0
    /\ files = EmptyDir
    /\ manifest = NoFile
    /\ pgn_file = NoFile
    /\ in_file = NoInput
    /\ uuid_count = 0
    /\ runs = 1
    /\ error = "none"
    /\ written = {}
    /\ issued = <<>>
    /\ queries = NoQueries
    /\ NoWith

NextParse == Convert \/ GetSchema

SpecParse == InitParse /\ [][NextParse]_vars

----------------------------------------------------------------------------
(* _decompress_pgn_file applied to the compression, in one frame or in     *)
(* two, of texts whose lengths lie around the multiples of chunk_size, and *)
(* the output file read back.                                              *)

\* a text of n characters
TextOfLen(n) == [i \in 1..n |-> <<"a", "b", "\n">>[(i % 3) + 1]]

ChunkLengths == {0, 1, chunk_size - 1, chunk_size, chunk_size + 1,
                 MaxChunks * chunk_size - 1, MaxChunks * chunk_size,
                 MaxChunks * chunk_size + 1}

\* the frames of the compression of text: one frame, or two frames of
\* which the first holds cut characters
FramesOf(text) ==
    {<<text>>}
    \cup {<<Slice(text, 1, cut), Slice(text, cut + 1, Len(text))>> :
              cut \in {c \in ChunkLengths : c <= Len(text)}}

ChunkInputs ==
    {[suffix |-> ZstSuffix, frames |-> fs, tail |-> NoTail] :
        fs \in UNION {FramesOf(TextOfLen(n)) : n \in ChunkLengths}}

InitDecompress ==
    /\ call = "_decompress_pgn_file"
    /\ pc = "decompress"
    /\ in_file \in ChunkInputs
    /\ data = <<>>
    /\ games = <<>>
    /\ structured_games = <<>>
    /\ schema = <<>>
    /\ idx = 0
    /\ files = EmptyDir
    /\ manifest = NoFile
    /\ pgn_file = NoFile
    /\ uuid_count = 0
    /\ runs = 1
    /\ error = "none"
    /\ written = {}
    /\ issued = <<>>
    /\ queries = NoQueries
    /\ NoWith

NextDecompress == Decompress \/ Read

SpecDecompress == InitDecompress /\ [][NextDecompress]_vars

----------------------------------------------------------------------------
(* The splitter and the parser applied to games whose header block has up  *)
(* to MaxHeaderTags tags after the Event tag, a Result tag among them,     *)
(* alone or followed by a second game.                                     *)

ResultKey == <<"R", "e", "s", "u", "l", "t">>

HeaderTags == {Tag(SiteKey, <<"b">>), Tag(DateKey, <<"c">>),
               Tag(ResultKey, WhiteWins), Tag(ResultKey, Draw)}

HeaderGames ==
    {GameText(<<Tag(EventKey, ev)>> \o tags, Chars_e4, BlackWins) :
        ev \in {<<"a">>, BlackWins},
        tags \in SeqsUpTo(HeaderTags, MaxHeaderTags)}

HeaderInputs ==
    HeaderGames
    \cup {g \o BlankLine \o GameText(<<Tag(EventKey, <<"b">>)>>, Chars_e4, WhiteWins) :
              g \in HeaderGames}

InitHeader ==
    /\ call = "preprocess_pgn"
    /\ pc = "read"
    /\ data \in HeaderInputs
    /\ games = <<>>
    /\ structured_games = <<>>
    /\ schema = <<>>
    /\ idx = 0
    /\ files = EmptyDir
    /\ manifest = NoFile
    /\ pgn_file = TextFile(data)
    /\ in_file = Compressed(data)
    /\ uuid_count = 0
    /\ runs = 1
    /\ error = "none"
    /\ written = {}
    /\ issued = <<>>
    /\ queries = NoQueries
    /\ NoWith

NextHeader == Split \/ Convert

SpecHeader == InitHeader /\ [][NextHeader]_vars

----------------------------------------------------------------------------
(* with statements on one SnowflakeSession, one after the other: the block *)
(* ends normally or by an exception (such as the AttributeError of a call  *)
(* of a method that the session does not have).                            *)

InitSession ==
    /\ call = "none"
    /\ pc = "idle"
    /\ data = <<>>
    /\ games = <<>>
    /\ structured_games = <<>>
    /\ schema = <<>>
    /\ idx = 0
    /\ files = EmptyDir
    /\ manifest = NoFile
    /\ pgn_file = NoFile
    /\ in_file = NoInput
    /\ uuid_count = 0
    /\ runs = 0
    /\ error = "none"
    /\ written = {}
    /\ issued = <<>>
    /\ queries = NoQueries
    /\ \E config \in Configs : sfs = [config |-> config, _session |-> NoSession]
    /\ sessions = <<>>
    /\ with_pc = "outside"
    /\ session = NoSession
    /\ exc = "none"
    /\ raised = "none"

\* __enter__, lines 41-43, and the binding of its result to the target
Enter ==
    /\ with_pc = "outside"
    /\ Len(sessions) < MaxWiths
    /\ sessions' = Append(sessions, NewSession(to_dict(sfs.config)))
    /\ sfs' = [sfs EXCEPT !._session = Len(sessions')]
    /\ session' = sfs'._session
    /\ with_pc' = "block"
    /\ exc' = "none"
    /\ raised' = "none"
    /\ UNCHANGED Process

\* the block raises
BlockRaise ==
    /\ with_pc = "block"
    /\ exc' \in Exceptions
    /\ with_pc' = "exit"
    /\ UNCHANGED <<Process, sfs, sessions, session, raised>>

\* the block ends normally
BlockEnd ==
    /\ with_pc = "block"
    /\ with_pc' = "exit"
    /\ UNCHANGED <<Process, sfs, sessions, session, exc, raised>>

\* __exit__, lines 58-60; the with statement lets the block's exception out
\* unless __exit__ returns a true value
Exit ==
    /\ with_pc = "exit"
    /\ IF sfs._session # NoSession
       THEN /\ sessions' = [sessions EXCEPT ![sfs._session].closed = @ + 1]
            /\ sfs' = [sfs EXCEPT !._session = NoSession]
       ELSE UNCHANGED <<sfs, sessions>>
    /\ raised' = IF ExitResult THEN "none" ELSE exc
    /\ with_pc' = "outside"
    /\ UNCHANGED <<Process, session, exc>>

NextSession ==
    \/ Enter
    \/ BlockRaise
    \/ BlockEnd
    \/ Exit

SpecSession == InitSession /\ [][NextSession]_vars

----------------------------------------------------------------------------
(* Vocabulary of the claims about the splitter.                            *)

StartsIn(s) == {p \in 1..Len(s) : MatchAt(s, p, StartToken)}

IsTerminalAt(s, q) == \E k \in 1..Len(TerminalTokens) : MatchAt(s, q, TerminalTokens[k])

EndsWithTerminal(t) == \E k \in 1..Len(TerminalTokens) : endswith(t, TerminalTokens[k])

IsBlank(t) == \A i \in 1..Len(t) : t[i] \in Whitespace

\* the start token following the one at p, or the end of the text
NextStart(s, p) ==
    IF \E r \in StartsIn(s) : r > p
    THEN CHOOSE r \in StartsIn(s) : r > p /\ \A r2 \in StartsIn(s) : r2 > p => r <= r2
    ELSE Len(s) + 1

\* s is well-formed games with whitespace around them: whitespace, then for
\* every start token the text up to the next start token is a game, which
\* ends with a terminal token, followed by whitespace only
WellFormedGames(s) ==
    /\ IF StartsIn(s) = {} THEN IsBlank(s)
       ELSE \E p \in StartsIn(s) :
              /\ \A r \in StartsIn(s) : p <= r
              /\ IsBlank(Slice(s, 1, p - 1))
    /\ \A p \in StartsIn(s) :
          EndsWithTerminal(rstrip(Slice(s, p, NextStart(s, p) - 1)))

\* a game that the end of the input cuts off starts at p
TrailingPartialAt(s, p) ==
    /\ MatchAt(s, p, StartToken)
    /\ \A q \in (p + Len(StartToken))..Len(s) : ~IsTerminalAt(s, q)

\* t occurs in s somewhere within positions lo..hi
OccursWithin(t, s, lo, hi) ==
    \E i \in lo..hi : i + Len(t) - 1 <= hi /\ MatchAt(s, i, t)

\* C1: for a text made of N well-formed games with whitespace around them,
\* the splitter returns exactly N segments, each of which starts with the
\* start token and ends with a terminal token.
C1_SplitCount ==
    (pc \in {"split", "converted"} /\ WellFormedGames(data)) =>
        /\ Len(games) = Cardinality(StartsIn(data))
        /\ \A k \in 1..Len(games) :
              startswith(games[k], StartToken) /\ EndsWithTerminal(games[k])

\* two games with whitespace between them, split in two
C1_Witness ==
    /\ pc = "split"
    /\ WellFormedGames(data)
    /\ Cardinality(StartsIn(data)) = 2
    /\ \E p \in StartsIn(data) : p > 2 /\ data[p - 1] \in Whitespace
    /\ Len(games) = 2

\* C2: when the input ends inside a game (a start token with no terminal
\* token after it), that trailing partial segment is not emitted: every
\* segment ends with a terminal token and lies before the partial game, and
\* the parser builds one record per emitted segment and no other.
C2_NoPartialSegment ==
    pc \in {"split", "converted"} =>
        \A p \in 1..Len(data) :
            TrailingPartialAt(data, p) =>
                /\ \A k \in 1..Len(games) :
                      /\ EndsWithTerminal(games[k])
                      /\ OccursWithin(games[k], data, 1, p - 1)
                /\ pc = "converted" => Len(structured_games) = Len(games)

\* a complete game followed by a game that the end of the input cuts off
C2_Witness ==
    /\ pc = "converted"
    /\ \E p \in 1..Len(data) : p > 1 /\ TrailingPartialAt(data, p)
    /\ Len(games) = 1
    /\ Len(structured_games) = 1

----------------------------------------------------------------------------
(* Vocabulary of the claims about the parser.                              *)

\* the header lines of a segment: the tags [Name "Value"] that begin a
\* line, as <<Name, Value>> in their order
HeaderLines(game) ==
    LET at == SelectSeq([i \in 1..Len(game) |-> i],
                        LAMBDA p : /\ p = 1 \/ game[p - 1] = "\n"
                                   /\ HeaderMatchAt(game, p) # <<>>)
    IN [k \in 1..Len(at) |-> HeaderMatchAt(game, at[k])]

NameOf(line) == line[1]
ValueOf(line) == line[2]

Reserved == {MovesKey, GameIdKey}

\* the first position of the line that holds position i
LineStartOf(s, i) ==
    CHOOSE j \in 1..i :
        /\ j = 1 \/ s[j - 1] = "\n"
        /\ \A k \in j..(i - 1) : s[k] # "\n"

\* the characters of s, line breaks included, that stand on a line which
\* does not start with the header marker
NonHeaderText(s) ==
    LET at == [i \in 1..Len(s) |-> <<i, s[i]>>]
        kept == SelectSeq(at, LAMBDA x : s[LineStartOf(s, x[1])] # "[")
    IN [k \in 1..Len(kept) |-> kept[k][2]]

\* positions at which a blank-line separator starts
BlankLinesIn(s) == {i \in 1..(Len(s) - 1) : s[i] = "\n" /\ s[i + 1] = "\n"}

\* C3: every header line [Name "Value"] of a segment contributes exactly
\* the pair (Name, Value), the last line of a Name winning, and no pair of
\* the record comes from anything but a header line (moves and game_id,
\* which the parser sets itself, aside).
C3_PairsFromHeaderLines ==
    pc = "converted" =>
        \A g \in 1..Len(games) :
            LET hl == HeaderLines(games[g])
                d == structured_games[g]
            IN /\ \A k \in 1..Len(hl) :
                      NameOf(hl[k]) \notin Reserved =>
                          /\ HasKey(d, NameOf(hl[k]))
                          /\ (\A l \in (k + 1)..Len(hl) :
                                  NameOf(hl[l]) # NameOf(hl[k]))
                                => Get(d, NameOf(hl[k])) = ValueOf(hl[k])
               /\ \A j \in 1..Len(d) :
                      d[j][1] \notin Reserved =>
                          \E k \in 1..Len(hl) : NameOf(hl[k]) = d[j][1]

\* C4: the moves field is the trimmed text after the first blank-line
\* separator of the segment; without a blank-line separator it is the
\* trimmed text of the lines that do not start with "[", in their order.
C4_Moves ==
    pc = "converted" =>
        \A g \in 1..Len(games) :
            LET s == games[g]
                moves == Get(structured_games[g], MovesKey)
            IN IF BlankLinesIn(s) # {}
               THEN \E i \in BlankLinesIn(s) :
                      /\ \A i2 \in BlankLinesIn(s) : i <= i2
                      /\ moves = strip(Slice(s, i + 2, Len(s)))
               ELSE moves = strip(NonHeaderText(s))

\* no blank line: a header line is left out and a later line is kept
C4_Witness ==
    /\ pc = "converted"
    /\ BlankLinesIn(games[1]) = {}
    /\ Len(HeaderLines(games[1])) = 2
    /\ Get(structured_games[1], MovesKey) # <<>>

\* the tag names of a segment in the order of their first occurrence
RECURSIVE FirstOccurrences(_, _)
FirstOccurrences(names, seen) ==
    IF names = <<>> THEN <<>>
    ELSE IF Head(names) \in seen THEN FirstOccurrences(Tail(names), seen)
    ELSE <<Head(names)>> \o FirstOccurrences(Tail(names), seen \cup {Head(names)})

TagNames(game) ==
    LET hs == FindAllHeaders(game, 1) IN
    FirstOccurrences([k \in 1..Len(hs) |-> hs[k][1]], Reserved)

\* C6: the schema's fields are the first record's keys: the tags in
\* encounter order, then moves, then game_id, also when the header has a
\* tag named moves or game_id.
C6_SchemaOrder ==
    (pc = "writing" /\ games # <<>>) =>
        /\ schema = keys(structured_games[1])
        /\ schema = TagNames(games[1]) \o <<MovesKey, GameIdKey>>

----------------------------------------------------------------------------
(* Vocabulary of the claims about schema inference and serialization.      *)

Pairs(d) == {d[k] : k \in 1..Len(d)}

KeySet(d) == {d[k][1] : k \in 1..Len(d)}

Distinct(seq) == \A i, j \in 1..Len(seq) : i # j => seq[i] # seq[j]

\* records of one shape, each with a game_id of its own
UniformRecords(sg) ==
    /\ sg # <<>>
    /\ \A k \in 1..Len(sg) : KeySet(sg[k]) = KeySet(sg[1])
    /\ \A k \in 1..Len(sg) : HasKey(sg[k], GameIdKey)
    /\ Distinct([k \in 1..Len(sg) |-> Get(sg[k], GameIdKey)])

InPipeline == call = "preprocess_pgn"

\* C5: every record built by the parser carries a freshly generated
\* game_id: the generator's value, also when the segment has a tag named
\* game_id, and different from the game_id of every other record built in
\* this run and in earlier runs of the process.
C5_FreshGameId ==
    /\ Distinct(issued)
    /\ (InPipeline /\ pc \in {"converted", "writing", "done", "failed"}) =>
          \A k \in 1..Len(structured_games) :
              Get(structured_games[k], GameIdKey)
                  = uuid4(uuid_count - Len(structured_games) + k)

\* a second run has parsed a game whose header has a tag named game_id
C5_Witness ==
    /\ InPipeline
    /\ pc = "converted"
    /\ runs = 2
    /\ Len(issued) >= 3
    /\ \E k \in 1..Len(games) :
          \E h \in 1..Len(FindAllHeaders(games[k], 1)) :
              FindAllHeaders(games[k], 1)[h][1] = GameIdKey

\* C7: when the archive yields no game, schema inference raises and the run
\* of preprocess_pgn ends in error, having written no record file and no
\* manifest.
C7_NoGamesFails ==
    (InPipeline /\ in_file.suffix = ZstSuffix /\ in_file.tail # Junk
        /\ games = <<>> /\ pc \in {"writing", "done", "failed"}) =>
        /\ pc = "failed"
        /\ error = "ValueError"
        /\ written = {}

\* a run over an archive that is not empty and holds no game has failed
C7_Witness ==
    /\ InPipeline
    /\ pc = "failed"
    /\ data # <<>>
    /\ games = <<>>
    /\ error = "ValueError"

\* C8: a later record whose fields differ from the schema (a field missing,
\* an extra field, another order) makes the run fail with a schema
\* violation instead of being serialized: every record that the writer has
\* gone past has exactly the schema's fields, in the schema's order.
C8_SchemaViolationFails ==
    (InPipeline /\ pc \in {"writing", "done"}) =>
        \A k \in 1..(idx - 1) : keys(structured_games[k]) = schema

\* C9: for records of one shape, each with its own game_id, the writer
\* leaves one file <game_id>.avro per record, holding exactly one record,
\* whose key/value pairs read back are those of the record.
C9_RoundTrip ==
    (pc = "done" /\ UniformRecords(structured_games)) =>
        \A k \in 1..Len(structured_games) :
            LET name == Get(structured_games[k], GameIdKey) \o AvroSuffix IN
            /\ name \in DOMAIN files
            /\ name \in written
            /\ Len(AvroRead(files[name])) = 1
            /\ Pairs(AvroRead(files[name])[1]) = Pairs(structured_games[k])

\* two records with the same keys in different orders have been written
C9_Witness ==
    /\ pc = "done"
    /\ UniformRecords(structured_games)
    /\ Len(structured_games) = 2
    /\ keys(structured_games[2]) # keys(structured_games[1])
    /\ Cardinality(DOMAIN files) >= 2

\* C10: the serializer never overwrites an existing record file: when the
\* game_id of the record to write names a file of the directory, the write
\* fails and the file keeps its content.
C10_NeverOverwrites ==
    [][(/\ pc = "writing"
        /\ idx <= Len(structured_games)
        /\ OutputFile(structured_games[idx]) \in DOMAIN files)
          => (pc' = "failed" /\ files' = files)]_vars

----------------------------------------------------------------------------
(* Vocabulary of the claims about whole runs.                              *)

\* the text whose compression the file holds
ArchiveText(f) == Concat(f.frames)

\* f is a zstd container: complete frames and nothing else
ValidContainer(f) == f.frames # <<>> /\ f.tail = NoTail

\* the lines of the manifest
ManifestLines == splitlines(manifest.text)

\* the record files the running call opened for writing
RecordsWritten == written \ {ManifestName}

Succeeded == InPipeline /\ pc = "done"

\* C11: after a successful run over an archive of N games, the run has
\* written exactly N record files and the manifest has exactly N lines, no
\* two alike, each the game_id of one record file written by the run, and
\* every record file written by the run is listed.
C11_ManifestComplete ==
    (Succeeded /\ ValidContainer(in_file)) =>
        LET N == Len(_split_pgn_games(ArchiveText(in_file))) IN
        /\ Cardinality(RecordsWritten) = N
        /\ Len(ManifestLines) = N
        /\ manifest.exists
        /\ Distinct(ManifestLines)
        /\ \A k \in 1..Len(ManifestLines) :
              ManifestLines[k] \o AvroSuffix \in RecordsWritten
        /\ \A name \in RecordsWritten :
              \E k \in 1..Len(ManifestLines) :
                  ManifestLines[k] \o AvroSuffix = name

Failed == InPipeline /\ pc = "failed"

\* a run over an archive of two games in two frames has succeeded
C11_Witness ==
    /\ Succeeded
    /\ Len(in_file.frames) = 2
    /\ Len(games) = 2
    /\ Len(ManifestLines) = 2
    /\ Cardinality(RecordsWritten) = 2

\* C12: after a run that ended in a fatal error, also in a directory that
\* holds the manifest of an earlier successful run, the directory holds no
\* manifest (the code has no marker for an incomplete manifest: the file
\* holds game_ids only).
C12_NoManifestAfterFailure ==
    Failed => ~manifest.exists

\* the segments without a header tag
Headerless(gs) == {k \in 1..Len(gs) : FindAllHeaders(gs[k], 1) = <<>>}

\* C13: when a segment has no header tag, parsing fails: the run does not
\* get past the parser, it ends in error, and it writes no manifest.
C13_NoHeaderFails ==
    (InPipeline /\ Headerless(games) # {}
        /\ pc \in {"converted", "writing", "done", "failed"}) =>
            /\ pc = "failed"
            /\ ManifestName \notin written

\* C14: a run whose input is no valid zstd container writes no record file
\* and no manifest and does not end successfully; a run whose path does
\* not end in .zst fails at once: it reads nothing and it creates no
\* decompressed file, no record file and no manifest.
C14_InvalidInputFails ==
    [][/\ (InPipeline /\ ~ValidContainer(in_file)) =>
              (written' = {} /\ pc' # "done")
       /\ (InPipeline /\ in_file.suffix # ZstSuffix) =>
              /\ pc' \in {"failed", "idle"}
              /\ written' = {}
              /\ UNCHANGED <<Directory, data>>]_vars

\* C15: _decompress_pgn_file applied to a file that holds the compression
\* of a text T, in one frame or in several, writes an output file whose
\* content is exactly T.
C15_DecompressRoundTrip ==
    (pc \in {"decompressed", "read"} /\ ValidContainer(in_file)) =>
        /\ pgn_file.exists
        /\ pgn_file.text = ArchiveText(in_file)
        /\ pc = "read" => data = ArchiveText(in_file)

\* a text of two chunks exactly, compressed in two frames of which the
\* first is longer than a chunk, has been decompressed
C15_Witness ==
    /\ pc = "decompressed"
    /\ Len(in_file.frames) = 2
    /\ Len(in_file.frames[1]) = chunk_size + 1
    /\ Len(ArchiveText(in_file)) = MaxChunks * chunk_size
    /\ pgn_file.text = ArchiveText(in_file)

\* the record files of the directory that the manifest lists
Listed ==
    {name \in DOMAIN files :
        \E k \in 1..Len(ManifestLines) : ManifestLines[k] \o AvroSuffix = name}

\* C16: a call of upload_files on the output directory gives the session
\* one PUT for every record file whose game_id the manifest lists, and no
\* other query.
C16_UploadsListedRecords ==
    [][(pc = "idle" /\ call' = "upload_files") =>
          \E puts \in Orders({PutCommand(name) : name \in Listed}) :
              queries' = queries \o puts]_vars

\* C17: entering the with statement creates one session from
\* config.to_dict() and hands it, open, to the block; leaving it, normally
\* or by an exception, closes that session (closed once, no other session
\* touched), resets _session to None, and lets the block's exception out.
C17_SessionLifecycle ==
    [][/\ (with_pc = "outside" /\ with_pc' = "block") =>
              /\ Len(sessions') = Len(sessions) + 1
              /\ session' = Len(sessions')
              /\ sfs'._session = session'
              /\ sessions'[session'].configs = to_dict(sfs.config)
              /\ sessions'[session'].closed = 0
       /\ (with_pc = "exit" /\ with_pc' = "outside") =>
              /\ sessions'[session].closed = 1
              /\ sfs'._session = NoSession
              /\ raised' = exc
       /\ \A n \in 1..Len(sessions) :
              (n # session \/ with_pc # "exit") =>
                  sessions'[n].closed = sessions[n].closed]_vars

\* a second with statement has been left by an exception
C17_Witness ==
    /\ with_pc = "outside"
    /\ Len(sessions) = 2
    /\ raised \in Exceptions
    /\ sessions[2].closed = 1
    /\ sessions[1].closed = 1
    /\ sfs._session = NoSession
    /\ sfs.config["account"] = None

----------------------------------------------------------------------------
(* Vocabulary of the claims about the place of the segments in the text.   *)

\* where the segments gs lie in s: each at its first occurrence at or
\* after position from and after the segments before it; 0 when a segment
\* does not occur there
RECURSIVE Located(_, _, _)
Located(s, gs, from) ==
    IF gs = <<>> THEN <<>>
    ELSE LET p == find(s, Head(gs), from) IN
         IF p = 0 THEN <<0>>
         ELSE <<p>> \o Located(s, Tail(gs), p + Len(Head(gs)))

\* C18: the segments are substrings of the input that follow one another
\* without overlap; each begins at the first start token at or after the
\* end of the segment before it and ends with the first terminal token
\* after that start token, line breaks or not in between; what lies
\* outside is dropped, and after the last segment no start token is
\* followed by a terminal token.
C18_SegmentBounds ==
    pc \in {"split", "converted"} =>
        LET at == Located(data, games, 1)
            end(k) == IF k = 0 THEN 0 ELSE at[k] + Len(games[k]) - 1
        IN
        /\ Len(at) = Len(games)
        /\ \A k \in 1..Len(games) :
              /\ at[k] > end(k - 1)
              /\ at[k] \in StartsIn(data)
              /\ \A r \in StartsIn(data) : r > end(k - 1) => at[k] <= r
              /\ EndsWithTerminal(games[k])
              /\ \A q \in (at[k] + Len(StartToken))..end(k) :
                    IsTerminalAt(data, q) =>
                        q + TerminalLenAt(data, q) - 1 = end(k)
        /\ \A r \in StartsIn(data) :
              r > end(Len(games)) => TrailingPartialAt(data, r)

\* two segments, a line break inside the first
C18_Witness ==
    /\ pc = "split"
    /\ Len(games) = 2
    /\ \E i \in 1..Len(games[1]) : games[1][i] = "\n"

\* the first game of a text that begins with the start token: the text up
\* to the next start token
FirstGame(s) == Slice(s, 1, NextStart(s, 1) - 1)

LineStarts(g) == {p \in 1..Len(g) : p = 1 \/ g[p - 1] = "\n"}

\* the positions at which a header tag begins a line
TagStarts(g) == {p \in LineStarts(g) : HeaderMatchAt(g, p) # <<>>}

\* the position of the first terminal token of g
FirstTerminalIn(g) ==
    CHOOSE q \in 1..Len(g) :
        IsTerminalAt(g, q) /\ \A q2 \in 1..(q - 1) : ~IsTerminalAt(g, q2)

\* the first terminal token of g lies inside a header tag
TerminalInTag(g) ==
    /\ \E q \in 1..Len(g) : IsTerminalAt(g, q)
    /\ \E p \in TagStarts(g) :
          p < FirstTerminalIn(g) /\ FirstTerminalIn(g) <= HeaderMatchAt(g, p)[3]

\* the tags of the header lines that end before the first terminal token
PrecedingTags(g) ==
    {<<HeaderMatchAt(g, p)[1], HeaderMatchAt(g, p)[2]>> :
        p \in {p2 \in TagStarts(g) : HeaderMatchAt(g, p2)[3] < FirstTerminalIn(g)}}

\* C19: when the first terminal token of a game lies inside a header tag
\* value, the segment of that game ends with that token, nothing else of
\* the game is emitted, and the game's record holds the tags of the header
\* lines before that tag, the moves "" and a game_id; no error is raised.
C19_TerminalInTagValue ==
    (pc \in {"split", "converted"} /\ TerminalInTag(FirstGame(data))) =>
        LET q == FirstTerminalIn(FirstGame(data)) IN
        /\ Len(games) = Cardinality(StartsIn(data))
        /\ \E k \in 1..Len(TerminalTokens) :
              /\ MatchAt(data, q, TerminalTokens[k])
              /\ games[1] = Slice(data, 1, q + Len(TerminalTokens[k]) - 1)
        /\ pc = "converted" =>
              /\ Len(structured_games) = Len(games)
              /\ error = "none"
              /\ {pr \in Pairs(structured_games[1]) : pr[1] \notin Reserved}
                    = PrecedingTags(FirstGame(data))
              /\ Get(structured_games[1], MovesKey) = <<>>

\* a game with the tags Event, Site, Result and a game after it: the first
\* record holds Event and Site, the second game has a record of its own
C19_Witness ==
    /\ pc = "converted"
    /\ TerminalInTag(FirstGame(data))
    /\ Cardinality(PrecedingTags(FirstGame(data))) = 2
    /\ Len(structured_games) = 2
    /\ Len(keys(structured_games[1])) = 4
    /\ Get(structured_games[2], MovesKey) # <<>>

\* the game_ids of the records of the running call, in their order
RunGameIds == [k \in 1..Len(structured_games) |-> GameIdOf(structured_games[k])]

\* the record files that calls before the running one left in the directory
EarlierFiles == DOMAIN files \ RecordsWritten

\* C20: a run writes the manifest once, after all of its record files; the
\* manifest it leaves holds exactly the game_ids of that run, in archive
\* order, whatever manifest was there before; the record files of earlier
\* runs stay in the directory as they were, and the manifest does not list
\* them.
C20_ManifestOfLastRun ==
    [][/\ (ManifestName \in written' \/ manifest' # manifest) =>
              \/ UNCHANGED <<manifest, written>>
              \/ /\ ManifestName \notin written
                 /\ \A k \in 1..Len(structured_games) :
                       OutputFile(structured_games[k]) \in written
                 /\ manifest'.exists
                 /\ splitlines(manifest'.text) = RunGameIds
       /\ (InPipeline /\ pc = "done") =>
              /\ ManifestLines = RunGameIds
              /\ \A name \in EarlierFiles :
                    /\ name \notin Listed
                    /\ name \in DOMAIN files'
                    /\ files'[name] = files[name]
       /\ InPipeline =>
              \A name \in DOMAIN files :
                  /\ name \in DOMAIN files'
                  /\ name \notin written' => files'[name] = files[name]]_vars

\* a second successful run in a directory that holds the manifest and the
\* record file of a first one has left a manifest of two lines
C20_Witness ==
    /\ Succeeded
    /\ runs = 2
    /\ Len(issued) = 3
    /\ Len(ManifestLines) = 2
    /\ Cardinality(EarlierFiles) = 1
    /\ Cardinality(DOMAIN files) = 3
====
